---- MODULE Spec2Model ----
(***************************************************************************)
(* Verification model of the hash-based one-time-signature core:           *)
(*   - the tweak model and the SHA3 tweakable hash (tweak_hash/sha.rs),    *)
(*   - the SHA-256 message hash (message_hash/sha.rs),                     *)
(*   - the Winternitz checksum, chain walk and KeyGen / Sign / Verify      *)
(*     (onetimesig::winternitz, modelled from its specification),          *)
(*   - encode_message and decode_to_chunks of the field-arithmetic message *)
(*     hash (message_hash/poseidon.rs), over byte-limbed big integers.     *)
(*                                                                         *)
(* Bytes are integers 0..255.  The SHA-256 digest is an oracle answer: any *)
(* 32-byte string may be the digest of an input, the same input always     *)
(* getting the same digest.  The SHA3 digest of the tweakable hash is a    *)
(* symbolic value: byte k of the digest of input x is <<"sha3", x, k>>, so *)
(* two digests are equal exactly when their inputs are (no collisions).    *)
(***************************************************************************)
EXTENDS Integers, Sequences, FiniteSets, TLC

VARIABLES
    \* --- tweak encoding (ShaTweak::to_bytes), two encoder calls
    tweakA, tweakB, bytesA, bytesB,
    \* --- one backend instantiation and the last call of each apply
    inst, mhCall, thCall,
    \* --- Winternitz checksum of two data-chunk vectors
    dataA, dataB, cksA, cksB,
    \* --- one signing identity of the one-time signature scheme
    phase, parameter, sk, pk, sig, signed, signCount, shaOracle, verified,
    \* --- field-arithmetic message hash (message_hash/poseidon.rs): one
    \* instantiation, two encode_message calls, two decode_to_chunks calls
    feInst, encA, encB, decA, decB

tweakVars == <<tweakA, tweakB, bytesA, bytesB>>
hashVars  == <<inst, mhCall, thCall>>
cksVars   == <<dataA, dataB, cksA, cksB>>
otsVars   == <<phase, parameter, sk, pk, sig, signed, signCount, shaOracle, verified>>
fieldVars == <<feInst, encA, encB, decA, decB>>
vars      == <<tweakVars, hashVars, cksVars, otsVars, fieldVars>>

(***************************************************************************)
(* Program constants                                                       *)
(***************************************************************************)
\* native digest length in bytes: the 256 / 8 of the asserts, [0u8;32]
DIGEST_LEN == 32
\* native digest length in bits: NUM_CHUNKS * CHUNK_SIZE < 256
DIGEST_BITS == 256
TWEAK_SEPARATOR_FOR_TREE_HASH == 0
TWEAK_SEPARATOR_FOR_CHAIN_HASH == 1
TWEAK_SEPARATOR_FOR_MESSAGE_HASH == 2
MESSAGE_LENGTH == 32

(***************************************************************************)
(* Byte helpers                                                            *)
(***************************************************************************)
RECURSIVE Pow(_, _)
Pow(b, e) == IF e = 0 THEN 1 ELSE b * Pow(b, e - 1)

\* u{8n}::to_be_bytes: n bytes, most significant first
to_be_bytes(x, n) == [i \in 1..n |-> (x \div Pow(256, n - i)) % 256]

\* u{8n}::to_le_bytes: n bytes, least significant first
to_le_bytes(x, n) == [i \in 1..n |-> (x \div Pow(256, i - 1)) % 256]

\* a byte array of length n holding byte b at every index
Fill(n, b) == [i \in 1..n |-> b]

\* a byte array of length n with a different byte at every index
Ramp(n) == [i \in 1..n |-> (i * 37 + 11) % 256]

(***************************************************************************)
(* Tweak model: enum ShaTweak and ShaTweak::to_bytes                       *)
(***************************************************************************)
NoTweak == [kind |-> "None"]

\* ShaTweak::TreeTweak { level: u8, pos_in_level: u32 }
TreeTweak(level, pos_in_level) ==
    [kind |-> "TreeTweak", level |-> level, pos_in_level |-> pos_in_level]

\* ShaTweak::ChainTweak { epoch: u32, chain_index: u16, pos_in_chain: u16 }
ChainTweak(epoch, chain_index, pos_in_chain) ==
    [kind |-> "ChainTweak", epoch |-> epoch, chain_index |-> chain_index,
     pos_in_chain |-> pos_in_chain]

\* ShaTweakHash::tree_tweak
ShaTweakHash_tree_tweak(level, pos_in_level) == TreeTweak(level, pos_in_level)

\* a chain tweak that forgets the epoch
ShaTweakHash_chain_tweak_noepoch(epoch, chain_index, pos_in_chain) ==
    ChainTweak(0, chain_index, pos_in_chain)

\* ShaTweakHash::chain_tweak
ShaTweakHash_chain_tweak(epoch, chain_index, pos_in_chain) ==
    ChainTweak(epoch, chain_index, pos_in_chain)

\* the chain arm with chain_index pushed as one byte (chain_index as u8)
ChainTweakBytes_narrow(epoch, chain_index, pos_in_chain) ==
    <<TWEAK_SEPARATOR_FOR_CHAIN_HASH>> \o to_be_bytes(epoch, 4)
        \o to_be_bytes(chain_index % 256, 1) \o to_be_bytes(pos_in_chain, 2)

\* the Self::ChainTweak arm of to_bytes
ChainTweakBytes(epoch, chain_index, pos_in_chain) ==
    <<TWEAK_SEPARATOR_FOR_CHAIN_HASH>> \o to_be_bytes(epoch, 4)
        \o to_be_bytes(chain_index, 2) \o to_be_bytes(pos_in_chain, 2)

\* the Self::TreeTweak arm of to_bytes
TreeTweakBytes(level, pos_in_level) ==
    <<TWEAK_SEPARATOR_FOR_TREE_HASH>> \o to_be_bytes(level, 1)
        \o to_be_bytes(pos_in_level, 4)

\* ShaTweak::to_bytes
ShaTweak_to_bytes(t) ==
    IF t.kind = "TreeTweak"
    THEN TreeTweakBytes(t.level, t.pos_in_level)
    ELSE ChainTweakBytes(t.epoch, t.chain_index, t.pos_in_chain)

\* field values of each width used as inputs: the corners of every byte
U8Vals  == {0, 1, 255}
U16Vals == {0, 1, 255, 256, 65535}
U32Vals == {0, 1, 256, 65536, 16777216, 2147483647}

TreeTweaks  == {TreeTweak(l, p) : l \in U8Vals, p \in U32Vals}
ChainTweaks == {ChainTweak(e, c, p) : e \in {0, 1, 16777216}, c \in U16Vals, p \in {0, 1, 256}}
Tweaks      == TreeTweaks \cup ChainTweaks

TweakInit ==
    /\ tweakA = NoTweak /\ tweakB = NoTweak
    /\ bytesA = <<>> /\ bytesB = <<>>

\* first caller: encode a tweak
EncodeA ==
    \E t \in Tweaks :
        /\ tweakA' = t
        /\ bytesA' = ShaTweak_to_bytes(t)
        /\ UNCHANGED <<tweakB, bytesB, hashVars, cksVars, otsVars, fieldVars>>

\* second caller: encode a tweak
EncodeB ==
    \E t \in Tweaks :
        /\ tweakB' = t
        /\ bytesB' = ShaTweak_to_bytes(t)
        /\ UNCHANGED <<tweakA, bytesA, hashVars, cksVars, otsVars, fieldVars>>

(***************************************************************************)
(* usize arithmetic.  A usize of a 64-bit target is four 16-bit limbs,     *)
(* least significant first; `*` wraps modulo 2^64 in a build without       *)
(* overflow checks and panics on overflow in a build with them.            *)
(***************************************************************************)
USIZE_LIMBS == 4

\* the usize holding n, for n < 2^31
Usize(n) == [i \in 1..USIZE_LIMBS |->
                 IF i = 1 THEN n % 65536 ELSE IF i = 2 THEN n \div 65536 ELSE 0]

\* the usize holding 2^k, for k < 64
UsizePow2(k) == [i \in 1..USIZE_LIMBS |->
                     IF i = (k \div 16) + 1 THEN Pow(2, k % 16) ELSE 0]

\* whether the usize is below 2^31, and then its value
UsizeIsSmall(x) == x[2] < 32768 /\ \A i \in 3..USIZE_LIMBS : x[i] = 0
UsizeNat(x) == x[2] * 65536 + x[1]

RECURSIVE MulLimbs(_, _, _, _)
MulLimbs(x, k, i, carry) ==
    IF i > USIZE_LIMBS
    THEN [limbs |-> <<>>, carry |-> carry]
    ELSE LET p == x[i] * k + carry
             r == MulLimbs(x, k, i + 1, p \div 65536)
         IN  [limbs |-> <<p % 65536>> \o r.limbs, carry |-> r.carry]

\* x * k on usize, k < 2^15: the wrapped product and whether it overflowed
usize_mul(x, k) ==
    LET r == MulLimbs(x, k, 1, 0)
    IN  [value |-> r.limbs, overflow |-> r.carry # 0]

(***************************************************************************)
(* Message hash: Sha256MessageHash<PARAMETER_LEN, RAND_LEN, NUM_CHUNKS,    *)
(* CHUNK_SIZE>::apply                                                      *)
(***************************************************************************)
\* bytes_to_chunks(bytes, chunk_size): every byte unpacked into
\* 8 / chunk_size chunks of chunk_size bits, most significant chunk first
bytes_to_chunks(bytes, chunk_size) ==
    LET per == 8 \div chunk_size
    IN  [i \in 1..(Len(bytes) * per) |->
            LET b == bytes[((i - 1) \div per) + 1]
                j == (i - 1) % per
            IN  (b \div Pow(2, 8 - chunk_size * (j + 1))) % Pow(2, chunk_size)]

\* the message-hash input with the chain-tweak marker in place of 0x02
Sha256MessageHash_input_marker01(param, epoch, randomness, message) ==
    param \o <<TWEAK_SEPARATOR_FOR_CHAIN_HASH>> \o to_le_bytes(epoch, 4)
        \o randomness \o message

\* the bytes apply feeds to the hasher, in order (hasher.update calls)
Sha256MessageHash_input(param, epoch, randomness, message) ==
    param \o <<TWEAK_SEPARATOR_FOR_MESSAGE_HASH>> \o to_le_bytes(epoch, 4)
        \o randomness \o message

\* the slice bound with the chunk size left out (NUM_CHUNKS / 8)
HashSliceLen_nomul(NUM_CHUNKS, CHUNK_SIZE) == UsizeNat(NUM_CHUNKS) \div 8

\* the slice bound NUM_CHUNKS * CHUNK_SIZE / 8 of &hash[0..]; the product is
\* below 256 when this is reached
HashSliceLen(NUM_CHUNKS, CHUNK_SIZE) ==
    UsizeNat(usize_mul(NUM_CHUNKS, CHUNK_SIZE).value) \div 8

\* what a panicking call leaves: nothing hashed, nothing returned
Panicked == [panicked |-> TRUE, fed |-> <<>>, value |-> <<>>]

\* Sha256MessageHash::apply.  I: the instantiation's const parameters and
\* whether the build checks arithmetic overflow; hash: the digest
\* hasher.finalize() returns for the bytes fed
Sha256MessageHash_apply(I, param, epoch, randomness, message, hash) ==
    LET bits == usize_mul(I.NUM_CHUNKS, I.CHUNK_SIZE)
    IN  IF ~(I.PARAMETER_LEN < DIGEST_BITS \div 8) THEN Panicked
        ELSE IF ~(I.RAND_LEN < DIGEST_BITS \div 8) THEN Panicked
        ELSE IF ~(I.RAND_LEN > 0) THEN Panicked
        ELSE IF bits.overflow /\ I.overflow_checks THEN Panicked
        ELSE IF ~(UsizeIsSmall(bits.value) /\ UsizeNat(bits.value) < DIGEST_BITS)
             THEN Panicked
        ELSE [panicked |-> FALSE,
              fed      |-> Sha256MessageHash_input(param, epoch, randomness, message),
              value    |-> bytes_to_chunks(
                               SubSeq(hash, 1, HashSliceLen(I.NUM_CHUNKS, I.CHUNK_SIZE)),
                               I.CHUNK_SIZE)]

(***************************************************************************)
(* Tweakable hash: ShaTweakHash<PARAMETER_LEN, HASH_LEN>::apply            *)
(***************************************************************************)
RECURSIVE Concat(_)
Concat(message) ==
    IF message = <<>> THEN <<>> ELSE Head(message) \o Concat(Tail(message))

\* the bytes apply feeds to the hasher: parameter, tweak bytes, then every
\* domain element of the message in order
ShaTweakHash_input(param, tweak, message) ==
    param \o ShaTweak_to_bytes(tweak) \o Concat(message)

\* Sha3::v256 finalized into result: [u8; 32]
Sha3_256(input) == [k \in 1..DIGEST_LEN |-> <<"sha3", input, k>>]

\* ShaTweakHash::apply: result[0..HASH_LEN].try_into().unwrap()
ShaTweakHash_apply(I, param, tweak, message) ==
    LET input  == ShaTweakHash_input(param, tweak, message)
        result == Sha3_256(input)
    IN  IF I.HASH_LEN > DIGEST_LEN
        THEN [panicked |-> TRUE, fed |-> input, value |-> <<>>]
        ELSE [panicked |-> FALSE, fed |-> input,
              value |-> SubSeq(result, 1, I.HASH_LEN)]

\* ShaTweakHash::internal_consistency_check (#[cfg(test)]): TRUE when an
\* assert fails
ShaTweakHash_internal_consistency_check(I) ==
    ~(I.PARAMETER_LEN < DIGEST_BITS \div 8) \/ ~(I.HASH_LEN < DIGEST_BITS \div 8)

(***************************************************************************)
(* Instantiations and inputs of the two backends                           *)
(***************************************************************************)
Build(pl, rl, hl, nc, cs, oc) ==
    [PARAMETER_LEN |-> pl, RAND_LEN |-> rl, HASH_LEN |-> hl,
     NUM_CHUNKS |-> nc, CHUNK_SIZE |-> cs, overflow_checks |-> oc]

\* a build without overflow checks (release profile)
Inst(pl, rl, hl, nc, cs) == Build(pl, rl, hl, nc, cs, FALSE)

Instantiations == {
    Inst(16, 16, 16, Usize(16), 8),      \* Sha256MessageHash128x3, ShaTweak128128
    Inst(24, 24, 24, Usize(48), 4),      \* Sha256MessageHash192x3, ShaTweak192192
    Inst(1, 2, 30, Usize(8), 1),
    Inst(0, 16, 22, Usize(4), 2),
    Inst(1, 1, 16, Usize(2), 4),
    Inst(1, 1, 1, Usize(3), 1),
    Inst(1, 1, 1, Usize(9), 4),
    Inst(1, 1, 1, Usize(31), 8),
    Inst(16, 16, 16, Usize(255), 1),
    Inst(32, 16, 16, Usize(16), 8),
    Inst(16, 32, 32, Usize(16), 8),
    Inst(16, 0, 33, Usize(16), 8),
    Inst(16, 16, 16, Usize(32), 8),
    Inst(16, 16, 16, Usize(16), 16),
    Build(16, 16, 16, Usize(16), 8, TRUE),
    Build(16, 16, 16, UsizePow2(61), 8, FALSE),
    Build(16, 16, 16, UsizePow2(61), 8, TRUE) }

\* the instantiations on which both backends are run side by side
PairInstantiations == {
    Inst(16, 16, 16, Usize(16), 8),
    Inst(1, 2, 30, Usize(8), 1),
    Inst(0, 16, 22, Usize(4), 2),
    Inst(1, 1, 16, Usize(2), 4),
    Inst(32, 16, 16, Usize(16), 8),
    Inst(16, 32, 32, Usize(16), 8),
    Inst(16, 0, 33, Usize(16), 8) }

ByteArrays(n) == {Fill(n, 0), Ramp(n)}
Epochs        == {0, 13}
Sha256Digests == {Fill(DIGEST_LEN, 0), Fill(DIGEST_LEN, 255), Ramp(DIGEST_LEN)}
ApplyTweaks   == {TreeTweak(0, 0), TreeTweak(0, 3), ChainTweak(0, 0, 0), ChainTweak(2, 3, 4)}
DomainLists(n) ==
    {<<a>> : a \in ByteArrays(n)} \cup {<<a, Fill(n, 0)>> : a \in ByteArrays(n)}

NoCall == [called |-> FALSE]

HashInit ==
    /\ inst \in Instantiations
    /\ mhCall = NoCall
    /\ thCall = NoCall

\* a call of Sha256MessageHash::apply
MessageHashApply ==
    \E p \in ByteArrays(inst.PARAMETER_LEN), e \in Epochs,
       r \in ByteArrays(inst.RAND_LEN), m \in ByteArrays(MESSAGE_LENGTH),
       h \in Sha256Digests :
        LET res == Sha256MessageHash_apply(inst, p, e, r, m, h)
        IN
        /\ mhCall' = [called |-> TRUE,
                      hash   |-> IF res.panicked THEN <<>> ELSE h,
                      result |-> res]
        /\ UNCHANGED <<inst, thCall, tweakVars, cksVars, otsVars, fieldVars>>

\* a call of ShaTweakHash::apply
TweakHashApply ==
    \E p \in ByteArrays(inst.PARAMETER_LEN), t \in ApplyTweaks,
       m \in DomainLists(inst.HASH_LEN) :
        /\ thCall' = [called |-> TRUE,
                      result |-> ShaTweakHash_apply(inst, p, t, m)]
        /\ UNCHANGED <<inst, mhCall, tweakVars, cksVars, otsVars, fieldVars>>

(***************************************************************************)
(* Winternitz checksum                                                     *)
(***************************************************************************)
NumChunks(I) == UsizeNat(I.NUM_CHUNKS)

\* the last position of a chain, 2^CHUNK_SIZE - 1
MaxChunkValue(I) == Pow(2, I.CHUNK_SIZE) - 1

RECURSIVE NumDigits(_, _)
NumDigits(v, base) == IF v < base THEN 1 ELSE 1 + NumDigits(v \div base, base)

\* one checksum chain too few
NUM_CHECKSUM_CHAINS_short(I) ==
    NumDigits(NumChunks(I) * MaxChunkValue(I), Pow(2, I.CHUNK_SIZE)) - 1

\* the number of CHUNK_SIZE-bit chunks that hold the largest checksum,
\* NUM_CHUNKS * (2^CHUNK_SIZE - 1)
NUM_CHECKSUM_CHAINS(I) ==
    NumDigits(NumChunks(I) * MaxChunkValue(I), Pow(2, I.CHUNK_SIZE))

NumChains(I) == NumChunks(I) + NUM_CHECKSUM_CHAINS(I)

RECURSIVE SumSeq(_)
SumSeq(q) == IF q = <<>> THEN 0 ELSE Head(q) + SumSeq(Tail(q))

\* C = sum over the data chunks of (2^CHUNK_SIZE - 1 - chunk_i)
checksum(I, chunks) ==
    SumSeq([i \in 1..Len(chunks) |-> MaxChunkValue(I) - chunks[i]])

\* C split into NUM_CHECKSUM_CHAINS chunks, most significant first
checksum_chunks(I, chunks) ==
    LET n == NUM_CHECKSUM_CHAINS(I)
        C == checksum(I, chunks)
    IN  [i \in 1..n |-> (C \div Pow(2, I.CHUNK_SIZE * (n - i))) % Pow(2, I.CHUNK_SIZE)]

\* most data bits, NUM_CHUNKS * CHUNK_SIZE, of the checksum instantiations
CksMaxBits == 5

CksInstantiations ==
    {I \in {Inst(1, 1, 1, Usize(n), cs) : n \in 1..CksMaxBits, cs \in {1, 2, 4}} :
        NumChunks(I) * I.CHUNK_SIZE <= CksMaxBits}

ChunkVectors(I) == [1..NumChunks(I) -> 0..MaxChunkValue(I)]

\* a data-chunk vector at least as large everywhere and larger somewhere
Dominates(b, a) ==
    /\ Len(a) = Len(b)
    /\ \A i \in 1..Len(a) : b[i] >= a[i]
    /\ \E j \in 1..Len(a) : b[j] > a[j]

CksInit ==
    /\ inst \in CksInstantiations
    /\ dataA = <<>> /\ dataB = <<>>
    /\ cksA = <<>> /\ cksB = <<>>

\* the checksum chunks of a first data-chunk vector
ChecksumA ==
    \E a \in ChunkVectors(inst) :
        /\ dataA' = a
        /\ cksA' = checksum_chunks(inst, a)
        /\ UNCHANGED <<inst, dataB, cksB, mhCall, thCall, tweakVars, otsVars, fieldVars>>

\* the checksum chunks of a second data-chunk vector
ChecksumB ==
    \E b \in ChunkVectors(inst) :
        /\ dataB' = b
        /\ cksB' = checksum_chunks(inst, b)
        /\ UNCHANGED <<inst, dataA, cksA, mhCall, thCall, tweakVars, otsVars, fieldVars>>

(***************************************************************************)
(* Hash-chain walker                                                       *)
(***************************************************************************)
\* walk(parameter, epoch, chain_index, start, from_position, to_position):
\* one chain-tweaked apply per position from_position+1 .. to_position, the
\* output of each step the input of the next; zero steps return start
\* a walk whose steps are tweaked with the position they leave, not the
\* position they reach
RECURSIVE walk_skewed(_, _, _, _, _, _, _)
walk_skewed(I, param, epoch, chain_index, start, from_position, to_position) ==
    IF from_position >= to_position
    THEN start
    ELSE walk_skewed(I, param, epoch, chain_index,
              ShaTweakHash_apply(I, param,
                  ShaTweakHash_chain_tweak(epoch, chain_index, from_position),
                  <<start>>).value,
              from_position + 1, to_position)

RECURSIVE walk(_, _, _, _, _, _, _)
walk(I, param, epoch, chain_index, start, from_position, to_position) ==
    IF from_position >= to_position
    THEN start
    ELSE walk(I, param, epoch, chain_index,
              ShaTweakHash_apply(I, param,
                  ShaTweakHash_chain_tweak(epoch, chain_index, from_position + 1),
                  <<start>>).value,
              from_position + 1, to_position)

(***************************************************************************)
(* Winternitz one-time signature: KeyGen, Sign, Verify                     *)
(***************************************************************************)
\* ShaTweakHash::rand_domain: HASH_LEN bytes drawn from the generator; a
\* drawn byte is the symbolic value <<"rand", v>>
ShaTweakHash_rand_domain(I, v) == [k \in 1..I.HASH_LEN |-> <<"rand", v + k - 1>>]

\* the chunk of every chain: the data chunks, then the checksum chunks
AllChunks(I, chunks) == chunks \o checksum_chunks(I, chunks)

\* KeyGen: the public chain-end of every chain, walked from position 0 to
\* position 2^CHUNK_SIZE - 1; chain indices count from 0
KeyGenPublic(I, param, epoch, secret) ==
    [i \in 1..NumChains(I) |->
        walk(I, param, epoch, i - 1, secret[i], 0, MaxChunkValue(I))]

\* Sign: the chain value of every chain at the position its chunk dictates.
\* mh is what MessageHash::apply returned for (parameter, epoch, randomness,
\* message); a chunk missing for a chain is an index out of range
Sign(I, secret, param, epoch, randomness, mh) ==
    IF mh.panicked \/ Len(mh.value) # NumChunks(I)
    THEN [panicked |-> TRUE, randomness |-> <<>>, values |-> <<>>]
    ELSE LET all == AllChunks(I, mh.value)
         IN  [panicked   |-> FALSE,
              randomness |-> randomness,
              values     |-> [i \in 1..NumChains(I) |->
                                 walk(I, param, epoch, i - 1, secret[i], 0, all[i])]]

\* Verify: every chain walked from its chunk position to 2^CHUNK_SIZE - 1
\* and compared with the public chain-end.  mh is what MessageHash::apply
\* returned for (parameter, epoch, signature.randomness, message)
Verify(I, public, param, epoch, signature, mh) ==
    IF mh.panicked \/ Len(mh.value) # NumChunks(I)
    THEN "panic"
    ELSE LET all == AllChunks(I, mh.value)
         IN  IF \A i \in 1..NumChains(I) :
                    walk(I, param, epoch, i - 1, signature.values[i],
                         all[i], MaxChunkValue(I)) = public[i]
             THEN "true" ELSE "false"

\* the secret-key guard with a second signature let through
SignAllowed_again == phase \in {"Keyed", "Signed"}

\* Sign takes the secret key of an identity that holds one and has not signed
SignAllowed == phase = "Keyed"

\* number of distinct generator outcomes for a secret key
NumSeeds == 2

OtsInstantiations == {Inst(1, 1, 1, Usize(4), 2), Inst(1, 1, 1, Usize(2), 4)}
OtsEpochs         == {13, 14}
OtsMessages       == ByteArrays(MESSAGE_LENGTH)
SecretKeys(I)     ==
    {[i \in 1..NumChains(I) |-> ShaTweakHash_rand_domain(I, 16 * s + d * i)] :
        s \in 0..(NumSeeds - 1), d \in {0, 1}}

NoSig      == [panicked |-> FALSE, randomness |-> <<>>, values |-> <<>>]
NotSigned  == [epoch |-> 0, message |-> <<>>]
NoVerify   == [epoch |-> 0, message |-> <<>>, result |-> "none"]

\* the digests SHA-256 may give for input: the recorded one when Sign hashed
\* the input, any digest otherwise
OracleAnswers(input) ==
    IF \E q \in shaOracle : q[1] = input
    THEN {q[2] : q \in {r \in shaOracle : r[1] = input}}
    ELSE Sha256Digests

OtsInit ==
    /\ inst \in OtsInstantiations
    /\ phase = "Unkeyed"
    /\ parameter = <<>>
    /\ sk = <<>> /\ pk = <<>>
    /\ sig = NoSig
    /\ signed = NotSigned
    /\ signCount = 0
    /\ shaOracle = {}
    /\ verified = NoVerify

\* KeyGen for the identity's epoch
KeyGen ==
    /\ phase = "Unkeyed"
    /\ \E p \in {Ramp(inst.PARAMETER_LEN)}, e \in OtsEpochs, secret \in SecretKeys(inst) :
        /\ parameter' = p
        /\ sk' = secret
        /\ pk' = KeyGenPublic(inst, p, e, secret)
        /\ signed' = [epoch |-> e, message |-> <<>>]
    /\ phase' = "Keyed"
    /\ UNCHANGED <<inst, sig, signCount, shaOracle, verified>>
    /\ UNCHANGED <<mhCall, thCall, tweakVars, cksVars, fieldVars>>

\* Sign a message with the secret key
SignMessage ==
    /\ SignAllowed
    /\ \E m \in OtsMessages, r \in {Ramp(inst.RAND_LEN)} :
        LET input == Sha256MessageHash_input(parameter, signed.epoch, r, m)
        IN  \E h \in OracleAnswers(input) :
            /\ sig' = Sign(inst, sk, parameter, signed.epoch, r,
                           Sha256MessageHash_apply(inst, parameter, signed.epoch, r, m, h))
            /\ signed' = [signed EXCEPT !.message = m]
            /\ shaOracle' = shaOracle \cup {<<input, h>>}
    /\ phase' = "Signed"
    /\ signCount' = signCount + 1
    /\ UNCHANGED <<inst, parameter, sk, pk, verified>>
    /\ UNCHANGED <<mhCall, thCall, tweakVars, cksVars, fieldVars>>

\* the used secret key is destroyed
Consume ==
    /\ phase = "Signed"
    /\ phase' = "Consumed"
    /\ sk' = <<>>
    /\ UNCHANGED <<inst, parameter, pk, sig, signed, signCount, shaOracle, verified>>
    /\ UNCHANGED <<mhCall, thCall, tweakVars, cksVars, fieldVars>>

\* Verify the signature against a message and an epoch
VerifyMessage ==
    /\ phase \in {"Signed", "Consumed"}
    /\ ~sig.panicked
    /\ \E m \in OtsMessages, e \in OtsEpochs :
        LET input == Sha256MessageHash_input(parameter, e, sig.randomness, m)
        IN  \E h \in OracleAnswers(input) :
            /\ verified' =
                 [epoch |-> e, message |-> m,
                  result |-> Verify(inst, pk, parameter, e, sig,
                                 Sha256MessageHash_apply(inst, parameter, e,
                                                         sig.randomness, m, h))]
    /\ UNCHANGED <<inst, phase, parameter, sk, pk, sig, signed, signCount, shaOracle>>
    /\ UNCHANGED <<mhCall, thCall, tweakVars, cksVars, fieldVars>>

(***************************************************************************)
(* num_bigint::BigUint: little-endian byte limbs without leading zero      *)
(* limbs; zero is the empty sequence                                       *)
(***************************************************************************)
RECURSIVE BigNorm(_)
BigNorm(x) ==
    IF x = <<>> THEN <<>>
    ELSE IF x[Len(x)] = 0 THEN BigNorm(SubSeq(x, 1, Len(x) - 1)) ELSE x

\* BigUint::from_bytes_le
BigUint_from_bytes_le(bytes) == BigNorm(bytes)

\* BigUint::from of a machine integer
BigUint_from(n) == BigNorm(to_le_bytes(n, 4))

\* (2 * rem + bit) divided by d, for rem < d, without forming a value
\* above d: the quotient bit and the remainder
ShiftBit(rem, bit, d) ==
    IF rem >= d - rem - bit
    THEN [q |-> 1, rem |-> rem - (d - rem - bit)]
    ELSE [q |-> 0, rem |-> rem + rem + bit]

\* (rem * 256 + byte) divided by d, for rem < d: the eight bits of byte
\* shifted in, most significant first
ShiftIn(rem, byte, d) ==
    LET s7 == ShiftBit(rem,    (byte \div 128) % 2, d)
        s6 == ShiftBit(s7.rem, (byte \div 64) % 2, d)
        s5 == ShiftBit(s6.rem, (byte \div 32) % 2, d)
        s4 == ShiftBit(s5.rem, (byte \div 16) % 2, d)
        s3 == ShiftBit(s4.rem, (byte \div 8) % 2, d)
        s2 == ShiftBit(s3.rem, (byte \div 4) % 2, d)
        s1 == ShiftBit(s2.rem, (byte \div 2) % 2, d)
        s0 == ShiftBit(s1.rem, byte % 2, d)
    IN  [q   |-> 128 * s7.q + 64 * s6.q + 32 * s5.q + 16 * s4.q
                  + 8 * s3.q + 4 * s2.q + 2 * s1.q + s0.q,
         rem |-> s0.rem]

\* long division of the limbs x[1..k] with incoming remainder rem by d:
\* the quotient limbs, most significant first, then the final remainder
RECURSIVE BigDivRemFrom(_, _, _, _)
BigDivRemFrom(x, k, rem, d) ==
    IF k = 0 THEN <<rem>>
    ELSE LET s == ShiftIn(rem, x[k], d)
         IN  <<s.q>> \o BigDivRemFrom(x, k - 1, s.rem, d)

\* x / d and x % d for a machine-integer d > 0
BigDivRem(x, d) ==
    LET r == BigDivRemFrom(x, Len(x), 0, d)
    IN  [quot |-> BigNorm([i \in 1..Len(x) |-> r[Len(x) + 1 - i]]),
         rem  |-> r[Len(x) + 1]]

\* x + y
RECURSIVE BigAddFrom(_, _, _, _)
BigAddFrom(x, y, i, carry) ==
    IF i > Len(x) /\ i > Len(y)
    THEN IF carry = 0 THEN <<>> ELSE <<carry>>
    ELSE LET t == (IF i <= Len(x) THEN x[i] ELSE 0)
                  + (IF i <= Len(y) THEN y[i] ELSE 0) + carry
         IN  <<t % 256>> \o BigAddFrom(x, y, i + 1, t \div 256)
BigAdd(x, y) == BigNorm(BigAddFrom(x, y, 1, 0))

\* x * k for one limb k
RECURSIVE BigMulLimbFrom(_, _, _, _)
BigMulLimbFrom(x, k, i, carry) ==
    IF i > Len(x)
    THEN IF carry = 0 THEN <<>> ELSE <<carry>>
    ELSE LET t == x[i] * k + carry
         IN  <<t % 256>> \o BigMulLimbFrom(x, k, i + 1, t \div 256)

\* x * y, one limb of y at a time, y the shorter operand
RECURSIVE BigMulFrom(_, _, _)
BigMulFrom(x, y, j) ==
    IF j > Len(y) THEN <<>>
    ELSE LET rest == BigMulFrom(x, y, j + 1)
             term == Fill(j - 1, 0) \o BigMulLimbFrom(x, y[j], 1, 0)
         IN  IF rest = <<>> THEN term ELSE BigAdd(term, rest)
BigMul(x, y) ==
    IF Len(y) <= Len(x)
    THEN BigNorm(BigMulFrom(x, y, 1)) ELSE BigNorm(BigMulFrom(y, x, 1))

RECURSIVE BigPow(_, _)
BigPow(x, n) ==
    IF n = 0 THEN <<1>>
    ELSE LET y == BigPow(x, n - 1)
         IN  IF y = <<>> THEN <<>> ELSE BigMul(y, x)

\* x < y
RECURSIVE BigLessFrom(_, _, _)
BigLessFrom(x, y, i) ==
    IF i = 0 THEN FALSE
    ELSE IF x[i] # y[i] THEN x[i] < y[i] ELSE BigLessFrom(x, y, i - 1)
BigLess(x, y) ==
    IF Len(x) # Len(y) THEN Len(x) < Len(y) ELSE BigLessFrom(x, y, Len(x))

\* 2^n
BigPow2(n) == Fill(n \div 8, 0) \o <<Pow(2, n % 8)>>

(***************************************************************************)
(* Field-arithmetic message hash: encode_message and decode_to_chunks.     *)
(* A field element F is its canonical representative in 0..MODULUS-1.      *)
(***************************************************************************)
\* FqConfig::MODULUS of FpBabyBear, 2^31 - 2^27 + 1
MODULUS == 2013265921

\* a decomposition that returns the digits most significant first
RECURSIVE base_p_decomposition_msf(_, _)
base_p_decomposition_msf(MSG_LEN_FE, acc) ==
    IF MSG_LEN_FE = 0 THEN [elements |-> <<>>, acc |-> acc]
    ELSE LET dr   == BigDivRem(acc, MODULUS)
             rest == base_p_decomposition_msf(MSG_LEN_FE - 1, dr.quot)
         IN  [elements |-> Append(rest.elements, dr.rem), acc |-> rest.acc]

\* the base-p decomposition loop of encode_message, std::array::from_fn
\* calling the closure for index 0, 1, ...: digit = acc % p; acc /= p.
\* elements is the array returned, acc what is left of the accumulator
RECURSIVE base_p_decomposition(_, _)
base_p_decomposition(MSG_LEN_FE, acc) ==
    IF MSG_LEN_FE = 0 THEN [elements |-> <<>>, acc |-> acc]
    ELSE LET dr   == BigDivRem(acc, MODULUS)
             rest == base_p_decomposition(MSG_LEN_FE - 1, dr.quot)
         IN  [elements |-> <<dr.rem>> \o rest.elements, acc |-> rest.acc]

\* encode_message::<MSG_LEN_FE>(message)
encode_message(MSG_LEN_FE, message) ==
    base_p_decomposition(MSG_LEN_FE, BigUint_from_bytes_le(message))

\* the mutant fold of decode_to_chunks: the last element most significant
RECURSIVE field_elements_to_uint_rev(_, _)
field_elements_to_uint_rev(field_elements, acc) ==
    IF field_elements = <<>> THEN acc
    ELSE field_elements_to_uint_rev(
             SubSeq(field_elements, 1, Len(field_elements) - 1),
             BigAdd(BigMul(acc, BigUint_from(MODULUS)),
                    BigUint_from(field_elements[Len(field_elements)])))

\* decode_to_chunks, "Turn field elements into a big integer": the fold
\* acc * MODULUS + item over the elements in array order, from acc
RECURSIVE field_elements_to_uint(_, _)
field_elements_to_uint(field_elements, acc) ==
    IF field_elements = <<>> THEN acc
    ELSE field_elements_to_uint(
             Tail(field_elements),
             BigAdd(BigMul(acc, BigUint_from(MODULUS)),
                    BigUint_from(Head(field_elements))))

\* (1 << CHUNK_SIZE) as u16
max_chunk_len(CHUNK_SIZE) == Pow(2, CHUNK_SIZE) % 65536

\* BigUint::to_bytes_be()[0] of a value below 2^16: its most significant
\* byte, the byte 0 for zero
first_byte_be(v) == IF v < 256 THEN v ELSE v \div 256

\* decode_to_chunks, "Split the integer into chunks": the fold over the
\* next n slots of hash_chunked; *item = (acc % max_chunk_len)
\* .to_bytes_be()[0], then acc = (acc - *item) / max_chunk_len, which is
\* acc / max_chunk_len as *item <= acc % max_chunk_len.  The n chunks,
\* then the accumulator left
RECURSIVE fold_slots(_, _, _)
fold_slots(n, CHUNK_SIZE, acc) ==
    IF n = 0 THEN <<acc>>
    ELSE LET dr == BigDivRem(acc, max_chunk_len(CHUNK_SIZE))
         IN  <<first_byte_be(dr.rem)>> \o fold_slots(n - 1, CHUNK_SIZE, dr.quot)

\* the fold over all NUM_CHUNKS slots, sixteen slots at a time
RECURSIVE split_into_chunks(_, _, _)
split_into_chunks(NUM_CHUNKS, CHUNK_SIZE, acc) ==
    IF NUM_CHUNKS = 0 THEN <<>>
    ELSE LET n == IF NUM_CHUNKS < 16 THEN NUM_CHUNKS ELSE 16
             r == fold_slots(n, CHUNK_SIZE, acc)
         IN  SubSeq(r, 1, n) \o split_into_chunks(NUM_CHUNKS - n, CHUNK_SIZE, r[n + 1])

\* decode_to_chunks::<NUM_CHUNKS, CHUNK_SIZE, HASH_LEN_FE>(field_elements);
\* a max_chunk_len of 0 is a division by zero
decode_to_chunks(NUM_CHUNKS, CHUNK_SIZE, field_elements) ==
    IF max_chunk_len(CHUNK_SIZE) = 0
    THEN [panicked |-> TRUE, chunks |-> <<>>]
    ELSE [panicked |-> FALSE,
          chunks   |-> split_into_chunks(NUM_CHUNKS, CHUNK_SIZE,
                           field_elements_to_uint(field_elements, <<>>))]

\* internal_consistency_check, message check:
\* log2(MODULUS) * MSG_LEN_FE >= 8 * MESSAGE_LENGTH, that is
\* MODULUS^MSG_LEN_FE >= 2^(8 * MESSAGE_LENGTH).  TRUE when it passes
message_check(I) ==
    ~BigLess(BigPow(BigUint_from(MODULUS), I.MSG_LEN_FE), BigPow2(8 * MESSAGE_LENGTH))

\* internal_consistency_check, decoding check:
\* log2(MODULUS) * HASH_LEN_FE <= NUM_CHUNKS * CHUNK_SIZE, that is
\* MODULUS^HASH_LEN_FE <= 2^(NUM_CHUNKS * CHUNK_SIZE).  TRUE when it passes
decoding_check(I) ==
    ~BigLess(BigPow2(I.NUM_CHUNKS * I.CHUNK_SIZE),
             BigPow(BigUint_from(MODULUS), I.HASH_LEN_FE))

\* PoseidonMessageHash<_, _, HASH_LEN_FE, NUM_CHUNKS, CHUNK_SIZE, _, MSG_LEN_FE>
PoseidonMessageHash(HASH_LEN_FE, NUM_CHUNKS, CHUNK_SIZE, MSG_LEN_FE) ==
    [HASH_LEN_FE |-> HASH_LEN_FE, NUM_CHUNKS |-> NUM_CHUNKS,
     CHUNK_SIZE |-> CHUNK_SIZE, MSG_LEN_FE |-> MSG_LEN_FE]
NoPoseidon == PoseidonMessageHash(0, 0, 0, 0)

\* largest MSG_LEN_FE instantiated
MaxMsgLenFe == 10

\* PoseidonMessageHash445 with every MSG_LEN_FE up to the bound
EncodeInstantiations ==
    {PoseidonMessageHash(5, 128, 2, n) : n \in 1..MaxMsgLenFe}

\* messages: all zeros, all u8::MAX, alternating 0x00 / 0xFF (the tests'),
\* varied bytes, and the integers 1, MODULUS and 2^255
EncodeMessages ==
    {Fill(MESSAGE_LENGTH, 0), Fill(MESSAGE_LENGTH, 255),
     [i \in 1..MESSAGE_LENGTH |-> IF (i - 1) % 2 = 0 THEN 0 ELSE 255],
     Ramp(MESSAGE_LENGTH),
     <<1>> \o Fill(MESSAGE_LENGTH - 1, 0),
     to_le_bytes(MODULUS, 4) \o Fill(MESSAGE_LENGTH - 4, 0),
     Fill(MESSAGE_LENGTH - 1, 0) \o <<128>>}

\* PoseidonMessageHash445, PoseidonMessageHashW1 and smaller decodings:
\* some pass the decoding check, some do not, some have CHUNK_SIZE above 8
DecodeInstantiations ==
    {PoseidonMessageHash(5, 128, 2, 9), PoseidonMessageHash(5, 163, 1, 9),
     PoseidonMessageHash(1, 31, 1, 9), PoseidonMessageHash(1, 16, 2, 9),
     PoseidonMessageHash(1, 8, 4, 9), PoseidonMessageHash(1, 4, 8, 9),
     PoseidonMessageHash(2, 31, 2, 9), PoseidonMessageHash(2, 8, 8, 9),
     PoseidonMessageHash(1, 30, 1, 9), PoseidonMessageHash(1, 3, 8, 9),
     PoseidonMessageHash(2, 7, 8, 9), PoseidonMessageHash(1, 4, 9, 9),
     PoseidonMessageHash(1, 2, 16, 9)}

\* field elements: the smallest, the largest, and limb boundaries
FieldValues == {0, 1, 256, MODULUS - 1}

\* arrays of n field elements: every array over FieldValues for n <= 2,
\* otherwise constant arrays and arrays with one element set
FieldArrays(n) ==
    IF n <= 2
    THEN [1..n -> FieldValues]
    ELSE {[i \in 1..n |-> v] : v \in FieldValues}
         \cup {[i \in 1..n |-> IF i = k THEN 1 ELSE 0] : k \in {1, n}}

NoEncode == [called |-> FALSE, message |-> <<>>, elements |-> <<>>, acc |-> <<>>]
NoDecode == [called |-> FALSE, field_elements |-> <<>>, panicked |-> FALSE,
             chunks |-> <<>>]

\* a call of encode_message
EncodeCall(message) ==
    LET r == encode_message(feInst.MSG_LEN_FE, message)
    IN  [called |-> TRUE, message |-> message, elements |-> r.elements,
         acc |-> r.acc]

EncodeMessageA ==
    /\ ~encA.called
    /\ \E message \in EncodeMessages : encA' = EncodeCall(message)
    /\ UNCHANGED <<feInst, encB, decA, decB>>
    /\ UNCHANGED <<tweakVars, hashVars, cksVars, otsVars>>

EncodeMessageB ==
    /\ encA.called /\ ~encB.called
    /\ \E message \in EncodeMessages : encB' = EncodeCall(message)
    /\ UNCHANGED <<feInst, encA, decA, decB>>
    /\ UNCHANGED <<tweakVars, hashVars, cksVars, otsVars>>

\* a call of decode_to_chunks
DecodeCall(field_elements) ==
    LET r == decode_to_chunks(feInst.NUM_CHUNKS, feInst.CHUNK_SIZE, field_elements)
    IN  [called |-> TRUE, field_elements |-> field_elements,
         panicked |-> r.panicked, chunks |-> r.chunks]

DecodeToChunksA ==
    /\ ~decA.called
    /\ \E fe \in FieldArrays(feInst.HASH_LEN_FE) : decA' = DecodeCall(fe)
    /\ UNCHANGED <<feInst, encA, encB, decB>>
    /\ UNCHANGED <<tweakVars, hashVars, cksVars, otsVars>>

DecodeToChunksB ==
    /\ decA.called /\ ~decB.called
    /\ \E fe \in FieldArrays(feInst.HASH_LEN_FE) : decB' = DecodeCall(fe)
    /\ UNCHANGED <<feInst, encA, encB, decA>>
    /\ UNCHANGED <<tweakVars, hashVars, cksVars, otsVars>>

(***************************************************************************)
(* Specifications                                                          *)
(***************************************************************************)
TweakIdle == tweakA = NoTweak /\ tweakB = NoTweak /\ bytesA = <<>> /\ bytesB = <<>>
HashIdle  == mhCall = NoCall /\ thCall = NoCall
CksIdle   == dataA = <<>> /\ dataB = <<>> /\ cksA = <<>> /\ cksB = <<>>
OtsIdle   ==
    /\ phase = "Unkeyed" /\ parameter = <<>> /\ sk = <<>> /\ pk = <<>>
    /\ sig = NoSig /\ signed = NotSigned /\ signCount = 0
    /\ shaOracle = {} /\ verified = NoVerify

FieldIdle ==
    /\ feInst = NoPoseidon /\ encA = NoEncode /\ encB = NoEncode
    /\ decA = NoDecode /\ decB = NoDecode

\* the tweak encoder
InitTweak == TweakInit /\ inst = Inst(16, 16, 16, Usize(16), 8) /\ HashIdle /\ CksIdle /\ OtsIdle /\ FieldIdle
NextTweak == EncodeA \/ EncodeB
SpecTweak == InitTweak /\ [][NextTweak]_vars

\* the message hash on every instantiation
InitHash == HashInit /\ TweakIdle /\ CksIdle /\ OtsIdle /\ FieldIdle
NextHash == MessageHashApply
SpecHash == InitHash /\ [][NextHash]_vars

\* the message hash and the tweakable hash side by side
InitPair == inst \in PairInstantiations /\ HashIdle /\ TweakIdle /\ CksIdle /\ OtsIdle /\ FieldIdle
NextPair == MessageHashApply \/ TweakHashApply
SpecPair == InitPair /\ [][NextPair]_vars

\* the checksum
InitCks == CksInit /\ HashIdle /\ TweakIdle /\ OtsIdle /\ FieldIdle
NextCks == ChecksumA \/ ChecksumB
SpecCks == InitCks /\ [][NextCks]_vars

\* the one-time signature scheme
Init == OtsInit /\ TweakIdle /\ HashIdle /\ CksIdle /\ FieldIdle
Next == KeyGen \/ SignMessage \/ Consume \/ VerifyMessage
Spec == Init /\ [][Next]_vars

\* the field backend's message encoding
InitEncode ==
    /\ feInst \in EncodeInstantiations
    /\ encA = NoEncode /\ encB = NoEncode /\ decA = NoDecode /\ decB = NoDecode
    /\ inst = Inst(16, 16, 16, Usize(16), 8)
    /\ TweakIdle /\ HashIdle /\ CksIdle /\ OtsIdle
NextEncode == EncodeMessageA \/ EncodeMessageB
SpecEncode == InitEncode /\ [][NextEncode]_vars

\* the field backend's chunk decoding
InitDecode ==
    /\ feInst \in DecodeInstantiations
    /\ encA = NoEncode /\ encB = NoEncode /\ decA = NoDecode /\ decB = NoDecode
    /\ inst = Inst(16, 16, 16, Usize(16), 8)
    /\ TweakIdle /\ HashIdle /\ CksIdle /\ OtsIdle
NextDecode == DecodeToChunksA \/ DecodeToChunksB
SpecDecode == InitDecode /\ [][NextDecode]_vars

(***************************************************************************)
(* Properties                                                              *)
(***************************************************************************)
\* the bits of a byte string, and of a chunk sequence of cs-bit chunks, most
\* significant bit first
BitsOf(bytes) ==
    [i \in 1..(8 * Len(bytes)) |->
        (bytes[((i - 1) \div 8) + 1] \div Pow(2, 7 - ((i - 1) % 8))) % 2]
ChunkBits(chunks, cs) ==
    [i \in 1..(cs * Len(chunks)) |->
        (chunks[((i - 1) \div cs) + 1] \div Pow(2, cs - 1 - ((i - 1) % cs))) % 2]

\* the message-hash instantiation satisfies the stated preconditions
MessageHashPreconditions(I) ==
    /\ I.PARAMETER_LEN < 32
    /\ 0 < I.RAND_LEN /\ I.RAND_LEN < 32
    /\ UsizeIsSmall(I.NUM_CHUNKS) /\ NumChunks(I) * I.CHUNK_SIZE < 256

C2_ToBytesInjective ==
    (tweakA # NoTweak /\ tweakB # NoTweak /\ bytesA = bytesB) => tweakA = tweakB

C2_Witness ==
    /\ tweakA = TreeTweak(0, 0) /\ tweakB = ChainTweak(0, 0, 0)
    /\ bytesA # bytesB
    /\ bytesA[1] = 0 /\ bytesB[1] = 1

\* C3: with one PARAMETER_LEN for both backends, the bytes the message hash
\* feeds to its hasher differ from the bytes the tweakable hash feeds to its
\* hasher, for a tree or chain tweak and 1 or 2 domain elements.
C3_MessageHashSeparated ==
    (mhCall.called /\ thCall.called /\ ~mhCall.result.panicked)
        => mhCall.result.fed # thCall.result.fed

\* the two inputs have one length and differ at the marker byte alone
C3_Witness ==
    /\ mhCall.called /\ thCall.called /\ ~mhCall.result.panicked
    /\ Len(mhCall.result.fed) = Len(thCall.result.fed)
    /\ \A i \in 1..Len(mhCall.result.fed) :
          (mhCall.result.fed[i] # thCall.result.fed[i]) <=> (i = inst.PARAMETER_LEN + 1)

\* C4: on an instantiation that meets the preconditions, with CHUNK_SIZE in
\* {1,2,4,8}, apply returns exactly NUM_CHUNKS chunks, each in
\* [0, 2^CHUNK_SIZE).
C4_ExactlyNumChunks ==
    (mhCall.called /\ MessageHashPreconditions(inst) /\ inst.CHUNK_SIZE \in {1, 2, 4, 8})
        => /\ ~mhCall.result.panicked
           /\ Len(mhCall.result.value) = NumChunks(inst)
           /\ \A i \in 1..Len(mhCall.result.value) :
                  mhCall.result.value[i] \in 0..MaxChunkValue(inst)

\* What holds of apply's chunk count: 8 / CHUNK_SIZE chunks for each of the
\* NUM_CHUNKS * CHUNK_SIZE / 8 digest bytes, which is NUM_CHUNKS exactly
\* when NUM_CHUNKS * CHUNK_SIZE is a multiple of 8.
ChunkCountOfApply ==
    (mhCall.called /\ MessageHashPreconditions(inst) /\ inst.CHUNK_SIZE \in {1, 2, 4, 8})
        => /\ ~mhCall.result.panicked
           /\ Len(mhCall.result.value) =
                 ((NumChunks(inst) * inst.CHUNK_SIZE) \div 8) * (8 \div inst.CHUNK_SIZE)
           /\ \A i \in 1..Len(mhCall.result.value) :
                  mhCall.result.value[i] \in 0..MaxChunkValue(inst)

\* C5: if data-chunk vector b is at least a everywhere and larger somewhere,
\* some checksum chunk of b is strictly smaller than that of a.
C5_ChecksumSound ==
    (dataA # <<>> /\ dataB # <<>> /\ Dominates(dataB, dataA))
        => \E i \in 1..Len(cksA) : cksB[i] < cksA[i]

\* b dominates a, one checksum chunk of b is smaller and another is larger
C5_Witness ==
    /\ dataA # <<>> /\ dataB # <<>> /\ Dominates(dataB, dataA)
    /\ \E i \in 1..Len(cksA) : cksB[i] < cksA[i]
    /\ \E j \in 1..Len(cksA) : cksB[j] > cksA[j]

\* C6: Verify of a signature with the public key, parameter and message it
\* was made for but another epoch returns false, and does not panic.
C6_WrongEpochRejected ==
    (/\ verified.result # "none"
     /\ verified.epoch # signed.epoch
     /\ verified.message = signed.message) => verified.result = "false"

C6_Witness ==
    /\ verified.result = "false"
    /\ verified.epoch # signed.epoch
    /\ verified.message = signed.message

\* C7: the lifecycle of an identity is Unkeyed -> Keyed -> Signed ->
\* Consumed; a secret key is used by at most one Sign, and nothing leads back
\* to Keyed after Sign.
C7_OneTimeUse ==
    [][/\ <<phase, phase'>> \in
            {<<"Unkeyed", "Keyed">>, <<"Keyed", "Signed">>, <<"Signed", "Consumed">>,
             <<"Unkeyed", "Unkeyed">>, <<"Keyed", "Keyed">>, <<"Signed", "Signed">>,
             <<"Consumed", "Consumed">>}
       /\ signCount' <= 1
       /\ signCount' # signCount => (phase = "Keyed" /\ phase' = "Signed")]_vars

C7_Witness == phase = "Consumed" /\ signCount = 1 /\ sk = <<>>

\* C8: on an instantiation with PARAMETER_LEN >= 32, RAND_LEN >= 32,
\* RAND_LEN = 0 or NUM_CHUNKS * CHUNK_SIZE >= 256, apply panics before
\* hashing and returns no chunks.
C8_ConfigurationRejected ==
    (/\ mhCall.called
     /\ \/ inst.PARAMETER_LEN >= 32
        \/ inst.RAND_LEN >= 32
        \/ inst.RAND_LEN = 0
        \/ ~UsizeIsSmall(inst.NUM_CHUNKS)
        \/ NumChunks(inst) * inst.CHUNK_SIZE >= 256)
        => mhCall.result = Panicked

\* What holds of the asserts: the same, as long as NUM_CHUNKS * CHUNK_SIZE
\* does not overflow usize or the build checks overflow.
ConfigurationRejectedWithoutWrap ==
    (/\ mhCall.called
     /\ \/ inst.PARAMETER_LEN >= 32
        \/ inst.RAND_LEN >= 32
        \/ inst.RAND_LEN = 0
        \/ ~UsizeIsSmall(inst.NUM_CHUNKS)
        \/ NumChunks(inst) * inst.CHUNK_SIZE >= 256
     /\ \/ inst.overflow_checks
        \/ ~usize_mul(inst.NUM_CHUNKS, inst.CHUNK_SIZE).overflow)
        => mhCall.result = Panicked

\* C9: on an instantiation with PARAMETER_LEN >= 32 or HASH_LEN >= 32 (one
\* the consistency check rejects), ShaTweakHash::apply returns no domain
\* element.
C9_TweakHashRejected ==
    (thCall.called /\ ShaTweakHash_internal_consistency_check(inst))
        => thCall.result.panicked

\* What holds of ShaTweakHash::apply: it panics exactly when HASH_LEN
\* exceeds the 32 digest bytes, and otherwise returns HASH_LEN bytes.
TweakHashApplyReturns ==
    thCall.called =>
        /\ thCall.result.panicked <=> inst.HASH_LEN > 32
        /\ ~thCall.result.panicked => Len(thCall.result.value) = inst.HASH_LEN

\* C10: for CHUNK_SIZE in {1,2,4,8}, the returned chunks, re-packed most
\* significant first, are exactly the first NUM_CHUNKS * CHUNK_SIZE bits of
\* the digest.
C10_ChunkCoverage ==
    (/\ mhCall.called /\ ~mhCall.result.panicked
     /\ MessageHashPreconditions(inst) /\ inst.CHUNK_SIZE \in {1, 2, 4, 8})
        => ChunkBits(mhCall.result.value, inst.CHUNK_SIZE)
             = SubSeq(BitsOf(mhCall.hash), 1, NumChunks(inst) * inst.CHUNK_SIZE)

\* What holds of the returned chunks: re-packed, they are the bits of the
\* first NUM_CHUNKS * CHUNK_SIZE / 8 digest bytes.
ChunkCoverageOfWholeBytes ==
    (/\ mhCall.called /\ ~mhCall.result.panicked
     /\ MessageHashPreconditions(inst) /\ inst.CHUNK_SIZE \in {1, 2, 4, 8})
        => ChunkBits(mhCall.result.value, inst.CHUNK_SIZE)
             = SubSeq(BitsOf(mhCall.hash), 1,
                      8 * ((NumChunks(inst) * inst.CHUNK_SIZE) \div 8))

\* the chain-tweaked hash steps that produced a domain value from a sampled
\* one, first step first: the tweak bytes each step fed to the hasher,
\* read back from the digest's input
RECURSIVE ChainSteps(_, _)
ChainSteps(I, v) ==
    IF v[1][1] = "rand"
    THEN <<>>
    ELSE LET input == v[1][2]
             tw    == SubSeq(input, I.PARAMETER_LEN + 1, I.PARAMETER_LEN + 9)
             prev  == SubSeq(input, I.PARAMETER_LEN + 10, Len(input))
         IN  ChainSteps(I, prev) \o <<tw>>

\* the tweak bytes of positions from+1, from+2, ..., to of a chain
ExpectedSteps(epoch, chain_index, from, to) ==
    [k \in 1..(to - from) |->
        ShaTweak_to_bytes(ShaTweakHash_chain_tweak(epoch, chain_index, from + k))]

\* C11: the hash-chain walk is additive and uses each position once.  For
\* every chain of a generated key and all from <= mid <= to up to
\* 2^CHUNK_SIZE - 1, walk(start, from, to) applies exactly to - from
\* chain-tweaked steps with positions from+1, ..., to in that order, each
\* step hashing the previous step's output;
\* walk(walk(start, from, mid), mid, to) = walk(start, from, to); and a walk
\* of zero steps returns start unchanged.  For a signature, the walk from
\* each chain value to the chain end completes the walk KeyGen made.
C11_WalkAdditive ==
    /\ phase = "Keyed" =>
        \A i \in 1..NumChains(inst) :
            \A from \in 0..MaxChunkValue(inst) :
                \A to \in from..MaxChunkValue(inst) :
                    LET W(x, a, b) == walk(inst, parameter, signed.epoch, i - 1, x, a, b)
                        atFrom    == W(sk[i], 0, from)
                        whole     == W(atFrom, from, to)
                    IN  /\ W(atFrom, from, from) = atFrom
                        /\ Len(whole) = inst.HASH_LEN
                        /\ ChainSteps(inst, whole)
                             = ExpectedSteps(signed.epoch, i - 1, 0, from)
                               \o ExpectedSteps(signed.epoch, i - 1, from, to)
                        /\ \A mid \in from..to :
                             W(W(atFrom, from, mid), mid, to) = whole
    /\ (phase = "Signed" /\ ~sig.panicked) =>
        \A i \in 1..NumChains(inst) :
            \A mid \in 0..MaxChunkValue(inst) :
                LET W(x, a, b) == walk(inst, parameter, signed.epoch, i - 1, x, a, b)
                IN  sig.values[i] = W(sk[i], 0, mid) =>
                        /\ ChainSteps(inst, sig.values[i])
                             = ExpectedSteps(signed.epoch, i - 1, 0, mid)
                        /\ W(sig.values[i], mid, MaxChunkValue(inst)) = pk[i]

\* a signature holds a chain value strictly inside its chain, and the walk
\* from it to the chain end meets the public key
C11_Witness ==
    /\ phase = "Signed" /\ ~sig.panicked
    /\ \E i \in 1..NumChains(inst) : \E mid \in 1..(MaxChunkValue(inst) - 1) :
         /\ sig.values[i] = walk(inst, parameter, signed.epoch, i - 1, sk[i], 0, mid)
         /\ walk(inst, parameter, signed.epoch, i - 1, sig.values[i], mid,
                 MaxChunkValue(inst)) = pk[i]

\* the integer with the given digits in the given base, least significant
\* digit first
RECURSIVE DigitsValue(_, _)
DigitsValue(digits, base) ==
    IF digits = <<>> THEN <<>>
    ELSE LET rest == DigitsValue(Tail(digits), base)
         IN  IF rest = <<>> THEN BigUint_from(Head(digits))
             ELSE BigAdd(BigUint_from(Head(digits)), BigMul(rest, base))

\* the integer with the given chunks of cs bits, least significant chunk
\* first: byte k of it holds bits 8(k-1) .. 8(k-1)+7, bit b being bit
\* b % cs of chunk b / cs
ChunksValue(chunks, cs) ==
    LET bit(b) == IF cs = 0 \/ b \div cs >= Len(chunks) THEN 0
                  ELSE (chunks[(b \div cs) + 1] \div Pow(2, b % cs)) % 2
        byte(k) == bit(8 * k) + 2 * bit(8 * k + 1) + 4 * bit(8 * k + 2)
                   + 8 * bit(8 * k + 3) + 16 * bit(8 * k + 4)
                   + 32 * bit(8 * k + 5) + 64 * bit(8 * k + 6)
                   + 128 * bit(8 * k + 7)
    IN  BigNorm([k \in 1..((cs * Len(chunks) + 7) \div 8) |-> byte(k - 1)])

Reverse(seq) == [i \in 1..Len(seq) |-> seq[Len(seq) + 1 - i]]

\* floor(m / MODULUS^i)
RECURSIVE DivPow(_, _)
DivPow(m, i) ==
    IF i = 0 THEN m
    ELSE LET q == BigDivRem(m, MODULUS).quot
         IN  IF q = <<>> THEN <<>> ELSE DivPow(q, i - 1)

\* what C12 states of one encode_message call
EncodedAsStated(c) ==
    LET m == BigNorm(c.message)     \* base-256 digits, least significant first
        p == BigUint_from(MODULUS)
    IN  /\ Len(c.elements) = feInst.MSG_LEN_FE
        /\ \A i \in 1..feInst.MSG_LEN_FE :
             /\ c.elements[i] \in 0..(MODULUS - 1)
             /\ c.elements[i] = BigDivRem(DivPow(m, i - 1), MODULUS).rem
        /\ BigAdd(DigitsValue(c.elements, p),
                  BigMul(BigPow(p, feInst.MSG_LEN_FE), c.acc)) = m
        /\ message_check(feInst) => DigitsValue(c.elements, p) = m

\* C12: encode_message returns the base-p digits of the message read as a
\* little-endian integer m, least significant first: element i is
\* floor(m / p^i) mod p for every i < MSG_LEN_FE (and m is the digits'
\* value plus p^MSG_LEN_FE times what the loop left undivided); when the
\* message check passes, the digits' value sum_i element_i * p^i is m, and
\* two distinct messages encode to distinct arrays.
C12_EncodeMessage ==
    /\ encA.called => EncodedAsStated(encA)
    /\ encB.called => EncodedAsStated(encB)
    /\ (/\ encA.called /\ encB.called /\ message_check(feInst)
        /\ encA.message # encB.message) => encA.elements # encB.elements

\* two distinct non-zero messages encoded under a passing message check,
\* the first with several non-zero digits
C12_Witness ==
    /\ encA.called /\ encB.called /\ message_check(feInst)
    /\ encA.message # encB.message
    /\ encA.elements # encB.elements
    /\ encA.elements[2] # 0 /\ encA.elements[2] # encA.elements[1]
    /\ encB.message # Fill(MESSAGE_LENGTH, 0)

\* what C13 states of one decode_to_chunks call
DecodedAsStated(c) ==
    /\ ~c.panicked
    /\ Len(c.chunks) = feInst.NUM_CHUNKS
    /\ \A i \in 1..feInst.NUM_CHUNKS :
         c.chunks[i] \in 0..(Pow(2, feInst.CHUNK_SIZE) - 1)
    /\ ChunksValue(c.chunks, feInst.CHUNK_SIZE)
         = DigitsValue(Reverse(c.field_elements), BigUint_from(MODULUS))

\* C13: when p^HASH_LEN_FE <= 2^(NUM_CHUNKS * CHUNK_SIZE) and CHUNK_SIZE <= 8,
\* decode_to_chunks returns NUM_CHUNKS chunks, each in [0, 2^CHUNK_SIZE),
\* with sum_i chunk_i * 2^(CHUNK_SIZE * i) the integer whose big-endian
\* base-p digits are the field elements; so two distinct field-element
\* arrays decode to distinct chunk sequences.
C13_DecodeLossless ==
    (decoding_check(feInst) /\ feInst.CHUNK_SIZE <= 8) =>
        /\ decA.called => DecodedAsStated(decA)
        /\ decB.called => DecodedAsStated(decB)
        /\ (decA.called /\ decB.called
            /\ decA.field_elements # decB.field_elements)
               => decA.chunks # decB.chunks

\* two distinct arrays of several field elements decoded under a passing
\* decoding check, the first with its largest element first
C13_Witness ==
    /\ decoding_check(feInst) /\ feInst.CHUNK_SIZE <= 8
    /\ feInst.HASH_LEN_FE >= 2
    /\ decA.called /\ decB.called
    /\ decA.field_elements # decB.field_elements
    /\ decA.field_elements[1] = MODULUS - 1 /\ decA.field_elements[2] = 1
    /\ decA.chunks # decB.chunks

====
